---- MODULE Spec2Model ----
\* Verification model of the hierarchical-vs-flat evaluation harness:
\*   scripts/hvf_eval.py                 (run_eval, create_mock_results, main)
\*   scripts/render_hvf_tables.py        (main)
\*   scripts/render_hvf_tables_broken.py (render_hvf_tables, render_basic_tables)
\* Latencies are integers (milliseconds); percentiles are kept in hundredths of
\* a millisecond so that numpy's linear interpolation stays integral.
\* snr_db values are kept in half-decibels so that the .5 cases of round() exist.
EXTENDS Integers, Sequences, FiniteSets, TLC

VARIABLES
    pc,             \* hvf_eval: "loop" | "mock" | "done" | "idle"
    useMock,        \* --mock given, or HierarchicalMLClassifier unavailable
    limit,          \* args.limit
    srcLen,         \* number of (iq, label) pairs the data iterator holds
    n,              \* run_eval: n
    sig,            \* the Sig of the current iteration and what classify_signal left on it
    per_class,      \* run_eval: per_class (label -> tally)
    lat_flat,       \* run_eval: lat_flat
    lat_hier,       \* run_eval: lat_hier
    conf_mat_flat,  \* run_eval: conf_mat_flat
    conf_mat_hier,  \* run_eval: conf_mat_hier
    seen,           \* history: per true label, the samples taken from the iterator
    irregular,      \* history: the samples on which the classifier broke its contract
    processed,      \* history: the samples whose try block ended without an exception
    out,            \* the artifact written by hvf_eval.main
    rpc,            \* renderers: "start" | "done" | "crashed" | "idle"
    prog,           \* which renderer runs: "main" | "broken" | "none"
    fileState,      \* the metrics file: "missing" | "garbage" | "json"
    data,           \* the parsed metrics JSON (only its "records" key matters)
    snr_data,       \* render_hvf_tables.main: snr_data
    tables          \* the table files on disk, name -> kind of content

vars == <<pc, useMock, limit, srcLen, n, sig, per_class, lat_flat, lat_hier,
          conf_mat_flat, conf_mat_hier, seen, irregular, processed, out,
          rpc, prog, fileState, data, snr_data, tables>>

evalVars == <<pc, useMock, limit, srcLen, n, sig, per_class, lat_flat, lat_hier,
              conf_mat_flat, conf_mat_hier, seen, irregular, processed, out>>

renderVars == <<rpc, prog, fileState, data, snr_data, tables>>

-----------------------------------------------------------------------------
\* Bounds of the model.

MaxSamples == 3

MaxLimit == 2

\* The most samples of one run on which the classifier raises, leaves a metadata
\* key unset or stores a non-numeric latency.
MaxIrregular == 1

MaxMockLimit == 24

MaxRecords == 3

-----------------------------------------------------------------------------
\* Labels and Python string order.

ModulationTypes == <<"BPSK", "QPSK", "8PSK", "16QAM", "64QAM", "FM">>

\* Labels the sample source yields in the model.
TrueLabels == {"BPSK", "QPSK"}

\* Labels the classifier may predict in the model.
PredLabels == {"BPSK", "QPSK"}

\* The code points of each label, as Python compares str values.
CodePoints ==
    ("BPSK"  :> <<66, 80, 83, 75>>) @@
    ("QPSK"  :> <<81, 80, 83, 75>>) @@
    ("8PSK"  :> <<56, 80, 83, 75>>) @@
    ("16QAM" :> <<49, 54, 81, 65, 77>>) @@
    ("64QAM" :> <<54, 52, 81, 65, 77>>) @@
    ("FM"    :> <<70, 77>>) @@
    ("other" :> <<111, 116, 104, 101, 114>>)

RECURSIVE LexLess(_, _)
LexLess(a, b) ==
    IF b = <<>> THEN FALSE
    ELSE IF a = <<>> THEN TRUE
    ELSE IF Head(a) # Head(b) THEN Head(a) < Head(b)
    ELSE LexLess(Tail(a), Tail(b))

StrLess(a, b) == LexLess(CodePoints[a], CodePoints[b])

EmptyDict == [k \in {} |-> 0]

Range(s) == {s[i] : i \in DOMAIN s}

-----------------------------------------------------------------------------
\* hvf_eval.py: the classifier's breadcrumbs on sig.metadata.

\* A metadata value float() rejects (None, a non-numeric string): float() raises.
NotANumber == -1

\* Latencies the classifier may report, in milliseconds. A non-numeric lat_base_ms
\* raises before anything is appended, which leaves the same state as a raising
\* classify_signal; the model draws the non-numeric value for lat_total_ms only.
LatBaseVals == {2}

LatTotalVals == {5, NotANumber}

\* An optional value: <<>> when the key is left unset, <<v>> when it is set to v.
Opt(S) == {<<>>} \cup {<<v>> : v \in S}

Key(k, o) == IF o = <<>> THEN EmptyDict ELSE k :> o[1]

\* sig.metadata as classify_signal leaves it.
Metadata(b, lb, lt, us) ==
    Key("base_pred", b) @@ Key("lat_base_ms", lb) @@
    Key("lat_total_ms", lt) @@ Key("used_specialized", us)

\* dict.get(key, default)
MetaGet(md, k, default) == IF k \in DOMAIN md THEN md[k] ELSE default

MetadataKeys == {"base_pred", "lat_base_ms", "lat_total_ms", "used_specialized"}

\* The classifier kept its contract on this sample: every key set, latencies numeric.
Regular(md) ==
    /\ DOMAIN md = MetadataKeys
    /\ md["lat_base_ms"] # NotANumber
    /\ md["lat_total_ms"] # NotANumber

\* The model lets the classifier break its contract on MaxIrregular samples of a run.
Allowed(md) == Regular(md) \/ irregular < MaxIrregular

Count(md) == IF Regular(md) THEN irregular ELSE irregular + 1

NoSig == [true_label |-> "", yhat_h |-> <<>>, metadata |-> EmptyDict, raised |-> "none"]

-----------------------------------------------------------------------------
\* hvf_eval.py: run_eval's accumulators.

ZeroTally == [flat_correct |-> 0, hier_correct |-> 0, hier_wins |-> 0,
              flat_wins |-> 0, ties |-> 0]

\* per_class.setdefault(label, {...})
SetDefault(pcl, label) ==
    IF label \in DOMAIN pcl THEN pcl ELSE pcl @@ (label :> ZeroTally)

\* Tally with the tie test dropping its second conjunct.
TallyLooseTie(e, label, yhat_f, yhat_h) ==
    LET e1 == IF yhat_f = label
              THEN [e EXCEPT !.flat_correct = @ + 1] ELSE e
        e2 == IF yhat_h = label
              THEN [e1 EXCEPT !.hier_correct = @ + 1] ELSE e1
        e3 == IF (yhat_h = label) /\ (yhat_f # label)
              THEN [e2 EXCEPT !.hier_wins = @ + 1] ELSE e2
        e4 == IF (yhat_f = label) /\ (yhat_h # label)
              THEN [e3 EXCEPT !.flat_wins = @ + 1] ELSE e3
        e5 == IF yhat_f = label
              THEN [e4 EXCEPT !.ties = @ + 1] ELSE e4
    IN  e5

\* Tally with the two win counters exchanged.
TallySwappedWins(e, label, yhat_f, yhat_h) ==
    LET e1 == IF yhat_f = label
              THEN [e EXCEPT !.flat_correct = @ + 1] ELSE e
        e2 == IF yhat_h = label
              THEN [e1 EXCEPT !.hier_correct = @ + 1] ELSE e1
        e3 == IF (yhat_h = label) /\ (yhat_f # label)
              THEN [e2 EXCEPT !.flat_wins = @ + 1] ELSE e2
        e4 == IF (yhat_f = label) /\ (yhat_h # label)
              THEN [e3 EXCEPT !.hier_wins = @ + 1] ELSE e3
        e5 == IF (yhat_f = label) /\ (yhat_h = label)
              THEN [e4 EXCEPT !.ties = @ + 1] ELSE e4
    IN  e5

\* The five if statements that tally one sample into its class entry.
Tally(e, label, yhat_f, yhat_h) ==
    LET e1 == IF yhat_f = label
              THEN [e EXCEPT !.flat_correct = @ + 1] ELSE e
        e2 == IF yhat_h = label
              THEN [e1 EXCEPT !.hier_correct = @ + 1] ELSE e1
        e3 == IF (yhat_h = label) /\ (yhat_f # label)
              THEN [e2 EXCEPT !.hier_wins = @ + 1] ELSE e2
        e4 == IF (yhat_f = label) /\ (yhat_h # label)
              THEN [e3 EXCEPT !.flat_wins = @ + 1] ELSE e3
        e5 == IF (yhat_f = label) /\ (yhat_h = label)
              THEN [e4 EXCEPT !.ties = @ + 1] ELSE e4
    IN  e5

\* bump(mat, y, yhat)
Bump(mat, y, yhat) ==
    LET m1  == IF y \in DOMAIN mat THEN mat ELSE mat @@ (y :> EmptyDict)
        row == IF yhat \in DOMAIN m1[y] THEN m1[y] ELSE m1[y] @@ (yhat :> 0)
    IN  [m1 EXCEPT ![y] = [row EXCEPT ![yhat] = @ + 1]]

\* CanTake with the limit test written n > limit.
CanTakeOffByOne == /\ pc = "loop"
                   /\ n < srcLen
                   /\ ~(limit # 0 /\ n > limit)

\* The for statement hands out the next pair and the limit check lets it through.
CanTake == /\ pc = "loop"
           /\ n < srcLen
           /\ ~(limit # 0 /\ n >= limit)

\* FlatPred with None as the default instead of yhat_h.
FlatPredNone(md, yhat_h) == MetaGet(md, "base_pred", "None")

\* yhat_f = sig.metadata.get("base_pred", yhat_h)
FlatPred(md, yhat_h) == MetaGet(md, "base_pred", yhat_h)

\* One iteration whose try block runs to its end.
ProcessSample(label, yhat_h, md) ==
    LET yhat_f == FlatPred(md, yhat_h)
        lb     == MetaGet(md, "lat_base_ms", 0)
        lt     == MetaGet(md, "lat_total_ms", 0)
        pcl    == SetDefault(per_class, label)
    IN  /\ CanTake
        /\ Allowed(md)
        /\ lb # NotANumber
        /\ lt # NotANumber
        /\ irregular' = Count(md)
        /\ n' = n + 1
        /\ sig' = [true_label |-> label, yhat_h |-> <<yhat_h>>, metadata |-> md,
                   raised |-> "none"]
        /\ lat_flat' = Append(lat_flat, lb)
        /\ lat_hier' = Append(lat_hier, lt)
        /\ per_class' = [pcl EXCEPT ![label] = Tally(@, label, yhat_f, yhat_h)]
        /\ conf_mat_flat' = Bump(conf_mat_flat, label, yhat_f)
        /\ conf_mat_hier' = Bump(conf_mat_hier, label, yhat_h)
        /\ seen' = [seen EXCEPT ![label] = @ + 1]
        /\ processed' = processed + 1
        /\ UNCHANGED <<pc, useMock, limit, srcLen, out>>
        /\ UNCHANGED renderVars

\* One iteration in which clf.classify_signal(sig) raises.
ClassifyRaises(label) ==
    /\ CanTake
    /\ irregular < MaxIrregular
    /\ irregular' = irregular + 1
    /\ n' = n + 1
    /\ sig' = [true_label |-> label, yhat_h |-> <<>>, metadata |-> EmptyDict,
               raised |-> "classify_signal"]
    /\ seen' = [seen EXCEPT ![label] = @ + 1]
    /\ UNCHANGED <<pc, useMock, limit, srcLen, per_class, lat_flat, lat_hier,
                   conf_mat_flat, conf_mat_hier, processed, out>>
    /\ UNCHANGED renderVars

\* One iteration in which float() raises on a latency breadcrumb: on lat_base_ms
\* before anything is appended, on lat_total_ms after lat_flat was appended.
LatencyRaises(label, yhat_h, md) ==
    LET lb == MetaGet(md, "lat_base_ms", 0)
        lt == MetaGet(md, "lat_total_ms", 0)
    IN  /\ CanTake
        /\ Allowed(md)
        /\ (lb = NotANumber) \/ (lt = NotANumber)
        /\ irregular' = Count(md)
        /\ n' = n + 1
        /\ sig' = [true_label |-> label, yhat_h |-> <<yhat_h>>, metadata |-> md,
                   raised |-> IF lb = NotANumber THEN "lat_base_ms" ELSE "lat_total_ms"]
        /\ lat_flat' = IF lb = NotANumber THEN lat_flat ELSE Append(lat_flat, lb)
        /\ seen' = [seen EXCEPT ![label] = @ + 1]
        /\ UNCHANGED <<pc, useMock, limit, srcLen, per_class, lat_hier,
                       conf_mat_flat, conf_mat_hier, processed, out>>
        /\ UNCHANGED renderVars

-----------------------------------------------------------------------------
\* hvf_eval.py: building the artifact.

\* The least key of a non-empty set of labels, in Python's str order.
MinLabel(S) == CHOOSE k \in S : \A j \in S \ {k} : StrLess(k, j)

RECURSIVE SortedKeys(_)
SortedKeys(S) ==
    IF S = {} THEN <<>>
    ELSE LET k == MinLabel(S) IN <<k>> \o SortedKeys(S \ {k})

\* [{"label": k, **v} for k, v in sorted(per_class.items())]
SortedItems(pcl) ==
    LET keys == SortedKeys(DOMAIN pcl)
    IN  [i \in 1..Len(keys) |-> [label |-> keys[i]] @@ pcl[keys[i]]]

RECURSIVE Insert(_, _)
Insert(x, s) ==
    IF s = <<>> THEN <<x>>
    ELSE IF x <= Head(s) THEN <<x>> \o s
    ELSE <<Head(s)>> \o Insert(x, Tail(s))

RECURSIVE SortAsc(_)
SortAsc(s) == IF s = <<>> THEN <<>> ELSE Insert(Head(s), SortAsc(Tail(s)))

\* np.percentile(lat, p) of a non-empty list, linear interpolation, in hundredths.
Percentile(lat, p) ==
    LET a   == SortAsc(lat)
        h   == p * (Len(a) - 1)
        lo  == h \div 100
        rem == h % 100
    IN  IF rem = 0 THEN 100 * a[lo + 1]
        ELSE 100 * a[lo + 1] + rem * (a[lo + 2] - a[lo + 1])

\* np.percentile of an empty array is nan.
NaN == -1

LatencySummaryUnguarded(lat) ==
    IF lat # <<>>
    THEN [p50 |-> Percentile(lat, 50), p95 |-> Percentile(lat, 95)]
    ELSE [p50 |-> NaN, p95 |-> NaN]

\* {"p50": ... if lat else 0.0, "p95": ... if lat else 0.0}
LatencySummary(lat) ==
    IF lat # <<>>
    THEN [p50 |-> Percentile(lat, 50), p95 |-> Percentile(lat, 95)]
    ELSE [p50 |-> 0, p95 |-> 0]

\* The dict run_eval returns.
Artifact ==
    [n              |-> n,
     per_class      |-> SortedItems(per_class),
     latency_ms     |-> [flat |-> LatencySummary(lat_flat),
                         hier |-> LatencySummary(lat_hier)],
     confusion_flat |-> conf_mat_flat,
     confusion_hier |-> conf_mat_hier]

\* Before main writes the file there is no artifact; n = -1 marks that.
NoArtifact ==
    [n              |-> -1,
     per_class      |-> <<>>,
     latency_ms     |-> [flat |-> [p50 |-> 0, p95 |-> 0],
                         hier |-> [p50 |-> 0, p95 |-> 0]],
     confusion_flat |-> EmptyDict,
     confusion_hier |-> EmptyDict]

\* The limit check breaks out of the loop; the artifact is built and written.
LimitBreak ==
    /\ pc = "loop"
    /\ n < srcLen
    /\ limit # 0 /\ n >= limit
    /\ out' = Artifact
    /\ pc' = "done"
    /\ UNCHANGED <<useMock, limit, srcLen, n, sig, per_class, lat_flat, lat_hier,
                   conf_mat_flat, conf_mat_hier, seen, irregular, processed>>
    /\ UNCHANGED renderVars

\* The data iterator is exhausted; the artifact is built and written.
SourceExhausted ==
    /\ pc = "loop"
    /\ n >= srcLen
    /\ out' = Artifact
    /\ pc' = "done"
    /\ UNCHANGED <<useMock, limit, srcLen, n, sig, per_class, lat_flat, lat_hier,
                   conf_mat_flat, conf_mat_hier, seen, irregular, processed>>
    /\ UNCHANGED renderVars

-----------------------------------------------------------------------------
\* hvf_eval.py: create_mock_results.

Max(a, b) == IF a >= b THEN a ELSE b

Min(a, b) == IF a <= b THEN a ELSE b

\* The values int(k * np.random.uniform(lo10/10, hi10/10)) can take.
UniformInt(k, lo10, hi10) ==
    IF k = 0 THEN {0} ELSE ((lo10 * k) \div 10) .. ((hi10 * k - 1) \div 10)

\* MockEntry with ties taken as the larger of the two counts.
MockEntryTiesMax(mod_type, flat_correct, hier_correct) ==
    [label        |-> mod_type,
     flat_correct |-> flat_correct,
     hier_correct |-> hier_correct,
     hier_wins    |-> Max(0, hier_correct - flat_correct),
     flat_wins    |-> Max(0, flat_correct - hier_correct),
     ties         |-> Max(flat_correct, hier_correct)]

MockEntry(mod_type, flat_correct, hier_correct) ==
    [label        |-> mod_type,
     flat_correct |-> flat_correct,
     hier_correct |-> hier_correct,
     hier_wins    |-> Max(0, hier_correct - flat_correct),
     flat_wins    |-> Max(0, flat_correct - hier_correct),
     ties         |-> Min(flat_correct, hier_correct)]

\* Percentiles the gamma-distributed mock latencies may give, in hundredths.
MockLatVals == {300, 900}

MockSummaries(n_samples) ==
    IF n_samples = 0 THEN {[p50 |-> NaN, p95 |-> NaN]}
    ELSE {s \in [p50 : MockLatVals, p95 : MockLatVals] : s.p50 <= s.p95}

MockConfusion(correct, other) ==
    [y \in Range(ModulationTypes) |-> (y :> correct) @@ ("other" :> other)]

CreateMockResults ==
    LET n_samples       == limit
        n_samples_class == n_samples \div Len(ModulationTypes)
    IN  /\ pc = "mock"
        /\ \E fc \in [1..Len(ModulationTypes) -> UniformInt(n_samples_class, 6, 8)],
              hc \in [1..Len(ModulationTypes) -> UniformInt(n_samples_class, 7, 9)],
              lf \in MockSummaries(n_samples), lh \in MockSummaries(n_samples) :
              /\ lh.p50 >= lf.p50 /\ lh.p95 >= lf.p95
              /\ out' = [n              |-> n_samples,
                         per_class      |-> [i \in 1..Len(ModulationTypes) |->
                                              MockEntry(ModulationTypes[i], fc[i], hc[i])],
                         latency_ms     |-> [flat |-> lf, hier |-> lh],
                         confusion_flat |-> MockConfusion(10, 2),
                         confusion_hier |-> MockConfusion(12, 1)]
        /\ pc' = "done"
        /\ UNCHANGED <<useMock, limit, srcLen, n, sig, per_class, lat_flat, lat_hier,
                       conf_mat_flat, conf_mat_hier, seen, irregular, processed>>
        /\ UNCHANGED renderVars

-----------------------------------------------------------------------------
\* The evaluation run.

RenderIdle ==
    /\ rpc = "idle"
    /\ prog = "none"
    /\ fileState = "missing"
    /\ data = EmptyDict
    /\ snr_data = <<>>
    /\ tables = EmptyDict

Init ==
    /\ useMock \in BOOLEAN
    /\ limit \in (IF useMock THEN 0..MaxMockLimit ELSE 0..MaxLimit)
    /\ srcLen \in (IF useMock THEN {0} ELSE 0..MaxSamples)
    /\ pc = IF useMock THEN "mock" ELSE "loop"
    /\ n = 0
    /\ sig = NoSig
    /\ per_class = EmptyDict
    /\ lat_flat = <<>>
    /\ lat_hier = <<>>
    /\ conf_mat_flat = EmptyDict
    /\ conf_mat_hier = EmptyDict
    /\ seen = [l \in TrueLabels |-> 0]
    /\ irregular = 0
    /\ processed = 0
    /\ out = NoArtifact
    /\ RenderIdle

Next ==
    \/ \E label \in TrueLabels, yhat_h \in PredLabels,
          b \in Opt(PredLabels), lb \in Opt(LatBaseVals), lt \in Opt(LatTotalVals),
          us \in Opt({TRUE}) :
          \/ ProcessSample(label, yhat_h, Metadata(b, lb, lt, us))
          \/ LatencyRaises(label, yhat_h, Metadata(b, lb, lt, us))
    \/ \E label \in TrueLabels : ClassifyRaises(label)
    \/ LimitBreak
    \/ SourceExhausted
    \/ CreateMockResults

Spec == Init /\ [][Next]_vars

-----------------------------------------------------------------------------
\* Properties of the evaluation run.

RECURSIVE SumOver(_, _)
SumOver(f, S) ==
    IF S = {} THEN 0
    ELSE LET k == CHOOSE x \in S : TRUE IN f[k] + SumOver(f, S \ {k})

\* sum(mat[y].values()), 0 when the row was never created.
RowSum(mat, y) == IF y \in DOMAIN mat THEN SumOver(mat[y], DOMAIN mat[y]) ELSE 0

Decided(e) == e.flat_wins + e.hier_wins + e.ties

\* C1: at every point of the aggregation loop, each per_class entry has
\* flat_wins + hier_wins + ties <= the number of samples taken so far whose true
\* label is the entry's label.
C1_DecidedAtMostSeen ==
    \A label \in DOMAIN per_class : Decided(per_class[label]) <= seen[label]

\* C1 witness: three samples taken, one class with every sample decided and one
\* class whose only sample had both predictions wrong.
C1_Witness ==
    /\ n = 3
    /\ \E a \in DOMAIN per_class, b \in DOMAIN per_class :
          /\ seen[a] = 2 /\ Decided(per_class[a]) = 2
          /\ seen[b] = 1 /\ Decided(per_class[b]) = 0

\* C2 (as claimed): in the artifact of a finished run_eval, each row of
\* confusion_flat sums to the number of samples taken with that true label, and
\* the rows together sum to the artifact's n.
C2_ConfusionRowSums ==
    (pc = "done" /\ ~useMock) =>
        /\ \A label \in TrueLabels : RowSum(out.confusion_flat, label) = seen[label]
        /\ SumOver([l \in TrueLabels |-> RowSum(out.confusion_flat, l)], TrueLabels) = out.n

\* C3 (as claimed): the artifact's n is the number of samples processed without
\* an exception; a sample whose processing raised is not counted.
C3_FailedNotCounted ==
    (pc = "done" /\ ~useMock) => out.n = processed

Bit(b) == IF b THEN 1 ELSE 0

Field(pcl, label, f) == IF label \in DOMAIN pcl THEN pcl[label][f] ELSE 0

\* C4: a sample processed to the end of the try block, with true label L, flat
\* prediction F and hierarchical prediction H, adds to per_class[L] exactly: ties
\* when F = L and H = L, flat_wins when F = L and H # L, hier_wins when H = L and
\* F # L, none of the three when both are wrong; flat_correct iff F = L and
\* hier_correct iff H = L; every other entry is left alone.
C4_TallyRule ==
    [][ (processed' = processed + 1) =>
          LET L == sig'.true_label
              H == sig'.yhat_h[1]
              F == IF "base_pred" \in DOMAIN sig'.metadata
                   THEN sig'.metadata["base_pred"] ELSE H
              D(f) == Field(per_class', L, f) - Field(per_class, L, f)
          IN  /\ DOMAIN per_class' = DOMAIN per_class \cup {L}
              /\ D("ties")         = Bit(F = L /\ H = L)
              /\ D("flat_wins")    = Bit(F = L /\ H # L)
              /\ D("hier_wins")    = Bit(H = L /\ F # L)
              /\ D("flat_correct") = Bit(F = L)
              /\ D("hier_correct") = Bit(H = L)
              /\ \A k \in DOMAIN per_class \ {L} : per_class'[k] = per_class[k]
      ]_vars

\* C4 witness: the artifact of the three samples (BPSK, BPSK, BPSK),
\* (QPSK, flat BPSK, hier QPSK), (QPSK, flat QPSK, hier BPSK).
C4_Witness ==
    /\ pc = "done"
    /\ out.n = 3
    /\ processed = 3
    /\ out.per_class =
         << [label |-> "BPSK", flat_correct |-> 1, hier_correct |-> 1,
             hier_wins |-> 0, flat_wins |-> 0, ties |-> 1],
            [label |-> "QPSK", flat_correct |-> 1, hier_correct |-> 1,
             hier_wins |-> 1, flat_wins |-> 1, ties |-> 0] >>

ZeroSummary == [p50 |-> 0, p95 |-> 0]

\* C5: run_eval's loop over an empty sample sequence gives n = 0, an empty
\* per_class list, empty confusion matrices and p50 = p95 = 0.0 for both variants.
C5_EmptyRun ==
    (pc = "done" /\ ~useMock /\ srcLen = 0) =>
        /\ out.n = 0
        /\ out.per_class = <<>>
        /\ out.confusion_flat = EmptyDict
        /\ out.confusion_hier = EmptyDict
        /\ out.latency_ms.flat = ZeroSummary
        /\ out.latency_ms.hier = ZeroSummary

\* C5 witness: a run over an empty source has written its artifact.
C5_Witness == pc = "done" /\ ~useMock /\ srcLen = 0 /\ out.n = 0

\* C6 (as claimed): in every artifact main writes, from run_eval's loop or from
\* create_mock_results, per_class is strictly ascending by label.
C6_PerClassSorted ==
    pc = "done" =>
        \A i \in 1..Len(out.per_class), j \in 1..Len(out.per_class) :
            i < j => StrLess(out.per_class[i].label, out.per_class[j].label)

-----------------------------------------------------------------------------
\* render_hvf_tables.py: main.

\* snr_db values the records carry, in half-decibels: -1.5, 1.5 and 2.5 dB.
SnrVals == {-3, 3, 5}

\* One row of "records"; snr_db is optional.
RecordOf(t) ==
    Key("snr_db", t[1]) @@ [flat_correct |-> t[2], hier_correct |-> t[3]]

\* int(round(x)) for x = h/2: Python rounds halves to the even neighbour.
PyRound(h) ==
    IF h % 2 = 0 THEN h \div 2
    ELSE LET lo == (h - 1) \div 2
         IN  IF lo % 2 = 0 THEN lo ELSE lo + 1

\* {int(round(r['snr_db'])) for r in data["records"]}
SnrKeys(records) == {PyRound(records[i]["snr_db"]) : i \in DOMAIN records}

\* sum(term(r) for r in data["records"] if int(round(r['snr_db'])) == snr)
RECURSIVE SnrSum(_, _, _)
SnrSum(records, snr, what) ==
    IF records = <<>> THEN 0
    ELSE LET r    == Head(records)
             term == CASE what = "flat_wins" -> Bit(r["flat_correct"] /\ ~r["hier_correct"])
                       [] what = "hier_wins" -> Bit(r["hier_correct"] /\ ~r["flat_correct"])
                       [] what = "N"         -> 1
         IN  (IF PyRound(r["snr_db"]) = snr THEN term ELSE 0)
             + SnrSum(Tail(records), snr, what)

\* The entry of snr_dict for one key, with the two win sums exchanged.
BucketStatsSwapped(records, snr) ==
    [flat_wins |-> SnrSum(records, snr, "hier_wins"),
     hier_wins |-> SnrSum(records, snr, "flat_wins"),
     N         |-> SnrSum(records, snr, "N")]

\* The entry of snr_dict for one key.
BucketStats(records, snr) ==
    [flat_wins |-> SnrSum(records, snr, "flat_wins"),
     hier_wins |-> SnrSum(records, snr, "hier_wins"),
     N         |-> SnrSum(records, snr, "N")]

\* The keys of sorted(snr_dict.items()).
RECURSIVE SortedInts(_)
SortedInts(S) ==
    IF S = {} THEN <<>>
    ELSE LET k == CHOOSE x \in S : \A y \in S : x <= y
         IN  <<k>> \o SortedInts(S \ {k})

\* snr_data as main builds it from a non-empty records list.
SnrData(records) ==
    LET keys == SortedInts(SnrKeys(records))
    IN  [i \in 1..Len(keys) |->
            LET stats == BucketStats(records, keys[i])
            IN  [snr       |-> keys[i],
                 flat_wins |-> stats.flat_wins,
                 hier_wins |-> stats.hier_wins,
                 adv       |-> stats.hier_wins - stats.flat_wins,
                 n         |-> stats.N]]

\* data.get("records") of what main ends up with: the parsed file, or the
\* placeholder dict (which has no "records") when reading or parsing failed.
LoadedRecords ==
    IF fileState = "json" THEN MetaGet(data, "records", <<>>) ELSE <<>>

LacksSnr(records) == \E i \in DOMAIN records : "snr_db" \notin DOMAIN records[i]

\* main runs to its end: hvf_tables.tex holds the rendered template, or the
\* placeholder table when the template cannot be loaded or rendered.
RenderMain(templateOk) ==
    /\ rpc = "start"
    /\ prog = "main"
    /\ ~LacksSnr(LoadedRecords)
    /\ snr_data' = IF LoadedRecords # <<>> THEN SnrData(LoadedRecords) ELSE <<>>
    /\ tables' = ("hvf_tables.tex" :> (IF templateOk THEN "rendered" ELSE "placeholder"))
                 @@ tables
    /\ rpc' = "done"
    /\ UNCHANGED <<prog, fileState, data>>
    /\ UNCHANGED evalVars

\* r['snr_db'] raises KeyError outside any try: main ends with a traceback
\* before the output directory is created.
RenderMainKeyError ==
    /\ rpc = "start"
    /\ prog = "main"
    /\ LacksSnr(LoadedRecords)
    /\ rpc' = "crashed"
    /\ UNCHANGED <<prog, fileState, data, snr_data, tables>>
    /\ UNCHANGED evalVars

-----------------------------------------------------------------------------
\* render_hvf_tables_broken.py: render_hvf_tables.

BothTables(kind) ==
    ("hvf_wins_table.tex" :> kind) @@ ("hvf_latency_table.tex" :> kind) @@ tables

\* The metrics file does not exist: the built-in placeholder tables are written.
RenderBrokenPlaceholder ==
    /\ rpc = "start"
    /\ prog = "broken"
    /\ fileState = "missing"
    /\ tables' = BothTables("placeholder")
    /\ rpc' = "done"
    /\ UNCHANGED <<prog, fileState, data, snr_data>>
    /\ UNCHANGED evalVars

\* The file parses and both Jinja2 templates render.
RenderBrokenJinja ==
    /\ rpc = "start"
    /\ prog = "broken"
    /\ fileState = "json"
    /\ tables' = BothTables("jinja")
    /\ rpc' = "done"
    /\ UNCHANGED <<prog, fileState, data, snr_data>>
    /\ UNCHANGED evalVars

\* The file parses and render_basic_tables writes both tables: jinja2 cannot be
\* installed, or a template fails (the wins template, or the latency template
\* after the wins table was already written).
RenderBrokenBasic(why) ==
    /\ rpc = "start"
    /\ prog = "broken"
    /\ fileState = "json"
    /\ why \in {"no_jinja2", "wins_template", "latency_template"}
    /\ tables' = BothTables("basic")
    /\ rpc' = "done"
    /\ UNCHANGED <<prog, fileState, data, snr_data>>
    /\ UNCHANGED evalVars

\* The file exists and does not parse. With jinja2, json.load raises inside the
\* try and the handler calls render_basic_tables(metrics, ...) with metrics never
\* bound: UnboundLocalError. Without jinja2, json.load raises outside any try.
RenderBrokenUnparseable(jinjaOk) ==
    /\ rpc = "start"
    /\ prog = "broken"
    /\ fileState = "garbage"
    /\ jinjaOk \in BOOLEAN
    /\ rpc' = "crashed"
    /\ UNCHANGED <<prog, fileState, data, snr_data, tables>>
    /\ UNCHANGED evalVars

-----------------------------------------------------------------------------
\* The renderers, each started on a metrics file.

EvalIdle ==
    /\ pc = "idle"
    /\ useMock = FALSE
    /\ limit = 0
    /\ srcLen = 0
    /\ n = 0
    /\ sig = NoSig
    /\ per_class = EmptyDict
    /\ lat_flat = <<>>
    /\ lat_hier = <<>>
    /\ conf_mat_flat = EmptyDict
    /\ conf_mat_hier = EmptyDict
    /\ seen = [l \in TrueLabels |-> 0]
    /\ irregular = 0
    /\ processed = 0
    /\ out = NoArtifact

InitRender ==
    /\ EvalIdle
    /\ rpc = "start"
    /\ prog \in {"main", "broken"}
    /\ fileState \in {"missing", "garbage", "json"}
    /\ \/ data = EmptyDict
       \/ /\ fileState = "json"
          /\ \E k \in 0..MaxRecords :
                \E t \in [1..k -> Opt(SnrVals) \X BOOLEAN \X BOOLEAN] :
                   data = [records |-> [i \in 1..k |-> RecordOf(t[i])]]
    /\ snr_data = <<>>
    /\ tables = EmptyDict

NextRender ==
    \/ \E templateOk \in BOOLEAN : RenderMain(templateOk)
    \/ RenderMainKeyError
    \/ RenderBrokenPlaceholder
    \/ RenderBrokenJinja
    \/ \E why \in {"no_jinja2", "wins_template", "latency_template"} : RenderBrokenBasic(why)
    \/ \E jinjaOk \in BOOLEAN : RenderBrokenUnparseable(jinjaOk)

SpecRender == InitRender /\ [][NextRender]_vars

-----------------------------------------------------------------------------
\* Properties of the renderers.

\* The records of a parsed file in which every row carries snr_db.
AllHaveSnr == fileState = "json" /\ LoadedRecords # <<>> /\ ~LacksSnr(LoadedRecords)

RowsAt(records, snr) == {i \in DOMAIN records : PyRound(records[i]["snr_db"]) = snr}

\* C7: for a non-empty records list whose rows all carry snr_db, flat_correct and
\* hier_correct, main's snr_data has exactly one bucket per distinct integer-rounded
\* snr_db, in strictly ascending order; each bucket's n counts the rows rounding to
\* it, flat_wins those with flat_correct and not hier_correct, hier_wins those with
\* hier_correct and not flat_correct, and adv = hier_wins - flat_wins.
C7_SnrBuckets ==
    (prog = "main" /\ rpc = "done" /\ AllHaveSnr) =>
        LET recs == LoadedRecords
        IN  /\ {snr_data[i].snr : i \in DOMAIN snr_data} = SnrKeys(recs)
            /\ Len(snr_data) = Cardinality(SnrKeys(recs))
            /\ \A i \in DOMAIN snr_data, j \in DOMAIN snr_data :
                  i < j => snr_data[i].snr < snr_data[j].snr
            /\ \A i \in DOMAIN snr_data :
                  LET b    == snr_data[i]
                      rows == RowsAt(recs, b.snr)
                  IN  /\ b.n = Cardinality(rows)
                      /\ b.flat_wins = Cardinality({k \in rows :
                             recs[k]["flat_correct"] /\ ~recs[k]["hier_correct"]})
                      /\ b.hier_wins = Cardinality({k \in rows :
                             recs[k]["hier_correct"] /\ ~recs[k]["flat_correct"]})
                      /\ b.adv = b.hier_wins - b.flat_wins

\* C7 witness: three rows in two buckets; 1.5 dB and 2.5 dB share bucket 2, which
\* holds one flat win and one hierarchical win; -1.5 dB is bucket -2 with a flat win.
C7_Witness ==
    /\ prog = "main" /\ rpc = "done" /\ AllHaveSnr
    /\ Len(LoadedRecords) = 3
    /\ snr_data = << [snr |-> -2, flat_wins |-> 1, hier_wins |-> 0, adv |-> -1, n |-> 1],
                     [snr |-> 2, flat_wins |-> 1, hier_wins |-> 1, adv |-> 0, n |-> 2] >>
    /\ {LoadedRecords[i]["snr_db"] : i \in 1..3} = {-3, 3, 5}

\* The rows of a records list that carry snr_db, in order.
RECURSIVE WithSnr(_)
WithSnr(records) ==
    IF records = <<>> THEN <<>>
    ELSE IF "snr_db" \in DOMAIN Head(records)
         THEN <<Head(records)>> \o WithSnr(Tail(records))
         ELSE WithSnr(Tail(records))

\* The records list mixes rows that carry snr_db with rows that lack it.
MixedSnr ==
    /\ fileState = "json"
    /\ LacksSnr(LoadedRecords)
    /\ WithSnr(LoadedRecords) # <<>>

\* C8 (as claimed): when records mixes rows with and without snr_db, main leaves
\* the rows without it out of the SNR table, buckets the others, writes
\* hvf_tables.tex and does not fail.
C8_MissingSnrTolerated ==
    (prog = "main" /\ rpc # "start" /\ MixedSnr) =>
        /\ rpc = "done"
        /\ "hvf_tables.tex" \in DOMAIN tables
        /\ snr_data = SnrData(WithSnr(LoadedRecords))

\* C9 (as claimed): when the metrics file exists and is not valid JSON, each
\* renderer ends without an uncaught exception and has written its table files:
\* main hvf_tables.tex, render_hvf_tables hvf_wins_table.tex and
\* hvf_latency_table.tex.
C9_UnparseableStillRenders ==
    (rpc # "start" /\ fileState = "garbage") =>
        /\ rpc = "done"
        /\ prog = "main" => "hvf_tables.tex" \in DOMAIN tables
        /\ prog = "broken" =>
              {"hvf_wins_table.tex", "hvf_latency_table.tex"} \subseteq DOMAIN tables

-----------------------------------------------------------------------------
\* Properties of the evaluation run: unset metadata keys.

\* C10: a sample on which classify_signal returns and leaves at least one of the
\* four metadata keys unset, the keys it did set being well-formed, does not
\* raise: it is counted in n, the flat prediction is base_pred if set and the
\* hierarchical prediction otherwise, each unset latency is recorded as 0.0, both
\* confusion matrices count the sample, and when base_pred is the unset key
\* neither hier_wins nor flat_wins changes.
C10_UnsetKeysDefault ==
    [][ ( /\ n' = n + 1
          /\ sig'.yhat_h # <<>>
          /\ DOMAIN sig'.metadata # MetadataKeys
          /\ \A k \in DOMAIN sig'.metadata \cap {"lat_base_ms", "lat_total_ms"} :
                sig'.metadata[k] # NotANumber ) =>
          LET md == sig'.metadata
              L  == sig'.true_label
              H  == sig'.yhat_h[1]
              F  == IF "base_pred" \in DOMAIN md THEN md["base_pred"] ELSE H
              Cell(mat, y, yhat) ==
                  IF y \in DOMAIN mat /\ yhat \in DOMAIN mat[y] THEN mat[y][yhat] ELSE 0
          IN  /\ sig'.raised = "none"
              /\ processed' = processed + 1
              /\ lat_flat' = Append(lat_flat,
                     IF "lat_base_ms" \in DOMAIN md THEN md["lat_base_ms"] ELSE 0)
              /\ lat_hier' = Append(lat_hier,
                     IF "lat_total_ms" \in DOMAIN md THEN md["lat_total_ms"] ELSE 0)
              /\ Cell(conf_mat_flat', L, F) = Cell(conf_mat_flat, L, F) + 1
              /\ Cell(conf_mat_hier', L, H) = Cell(conf_mat_hier, L, H) + 1
              /\ RowSum(conf_mat_flat', L) = RowSum(conf_mat_flat, L) + 1
              /\ RowSum(conf_mat_hier', L) = RowSum(conf_mat_hier, L) + 1
              /\ "base_pred" \notin DOMAIN md =>
                    /\ Field(per_class', L, "hier_wins") = Field(per_class, L, "hier_wins")
                    /\ Field(per_class', L, "flat_wins") = Field(per_class, L, "flat_wins")
      ]_vars

\* C10 witness: the classifier set no metadata key at all on a sample it
\* classified correctly, and the sample was tallied as a tie.
C10_Witness ==
    /\ sig.raised = "none"
    /\ sig.yhat_h = <<sig.true_label>>
    /\ sig.metadata = EmptyDict
    /\ n = 1
    /\ processed = 1
    /\ lat_flat = <<0>>
    /\ lat_hier = <<0>>
    /\ per_class[sig.true_label].ties = 1

-----------------------------------------------------------------------------
\* Properties of the evaluation run: the sample limit.
\* classify_signal is called once for every sample the loop takes, so n is also
\* the number of its calls.

-----------------------------------------------------------------------------
\* Properties of the evaluation run: a sample whose processing raises.

\* The number of samples a confusion matrix has recorded.
Recorded(mat) == SumOver([y \in DOMAIN mat |-> RowSum(mat, y)], DOMAIN mat)

\* C12 (as claimed): a sample that raises inside the try block does not end the
\* loop and leaves per_class, both confusion matrices, lat_flat and lat_hier as
\* they were, so lat_flat and lat_hier always have as many entries as each
\* confusion matrix has recorded samples.
C12_FailedSampleLeavesNoTrace ==
    [][ /\ (n' = n + 1 /\ sig'.raised # "none") =>
              /\ pc' = "loop"
              /\ UNCHANGED <<per_class, conf_mat_flat, conf_mat_hier, lat_flat, lat_hier>>
        /\ Len(lat_flat') = Recorded(conf_mat_flat')
        /\ Len(lat_hier') = Recorded(conf_mat_hier')
      ]_vars

-----------------------------------------------------------------------------
\* Properties of the evaluation run: the tallies of one class.

Balanced(e) ==
    /\ e.ties + e.flat_wins = e.flat_correct
    /\ e.ties + e.hier_wins = e.hier_correct
    /\ e.hier_wins - e.flat_wins = e.hier_correct - e.flat_correct

\* C13: in every per_class entry, at every point of run_eval's loop and in every
\* artifact written (from the loop or from create_mock_results with
\* n_samples >= 0), ties + flat_wins = flat_correct and ties + hier_wins =
\* hier_correct, hence hier_wins - flat_wins = hier_correct - flat_correct.
C13_WinsAndTiesAddUp ==
    /\ \A label \in DOMAIN per_class : Balanced(per_class[label])
    /\ pc = "done" => \A i \in DOMAIN out.per_class : Balanced(out.per_class[i])

\* C13 witness: one class has seen a tie, a flat win and a hierarchical win.
C13_Witness ==
    /\ n = 3
    /\ \E label \in DOMAIN per_class :
          per_class[label] = [flat_correct |-> 2, hier_correct |-> 2,
                              hier_wins |-> 1, flat_wins |-> 1, ties |-> 1]

====
